---- MODULE Spec2Model ----
(***************************************************************************)
(* A model of src/app.py, the OOTD outfit recommender (a Streamlit app).   *)
(*                                                                         *)
(* Text is a sequence of characters.  A Hangul syllable is one character,  *)
(* written here as its upper-case romanisation ("BEUL" "RAEG" is the word  *)
(* for black), a Latin letter or an ASCII sign is itself.  Scores and      *)
(* warmth values are counted in tenths (2.2 is 22, 7.0 is 70), so that the *)
(* sums of score_item are exact integers.                                  *)
(***************************************************************************)
EXTENDS Integers, Sequences, FiniteSets, TLC

VARIABLES
    wardrobe,        \* st.session_state.wardrobe
    uploaded,        \* the file held by the wardrobe-restore uploader
    edit_target,     \* st.session_state.edit_target
    mood_records,    \* st.session_state.mood_records
    messages,        \* st.session_state.messages
    prefs,           \* st.session_state.prefs
    banned_widget,   \* the ban-list text input: its default and what was typed
    temp_ban_items,  \* st.session_state.temp_ban_items
    last_outfit,     \* st.session_state.last_outfit
    page,            \* st.session_state.page
    weather,         \* the Weather built by the sidebar
    tpo_tags,        \* the TPO tags inferred by the sidebar
    outfit,          \* the outfit the last script run computed and showed
    color_plan,      \* the colour plan the last script run computed and showed
    saved_outfits,   \* st.session_state.saved_outfits
    target_date,     \* the date of the sidebar's date input
    dialog_error,    \* the last run showed the edit dialog's "편집 대상이 유효하지 않아요"
    ban_seen,        \* the transient ban set score_item read in the last run
    banned_typed,    \* what the user last typed into the ban-list text input
    ev,              \* the user event the last script run handled
    nev              \* how many user events were handled so far

vars == <<wardrobe, uploaded, edit_target, mood_records, messages, prefs,
          banned_widget, temp_ban_items, last_outfit, page, weather, tpo_tags,
          outfit, color_plan, saved_outfits, target_date, dialog_error, ban_seen,
          banned_typed, ev, nev>>

(***************************************************************************)
(* Characters and strings                                                  *)
(***************************************************************************)
Whitespace == {" ", "\n"}
Punctuation == {",", ".", "(", ")", "!"}
\* the upper-case Latin letters of the texts below, and their lower case
Lowered == [B |-> "b", T |-> "t"]
UpperCase == DOMAIN Lowered

\* str.lower(): Hangul, digits and signs are left alone.
LowerChar(c) == IF c \in UpperCase THEN Lowered[c] ELSE c

lower(s) == [i \in 1..Len(s) |-> LowerChar(s[i])]

\* the regex class [가-힣a-z0-9], on lower-cased text
IsWordChar(c) == c \notin (Whitespace \cup Punctuation \cup UpperCase)

\* needle in haystack
Contains(s, k) ==
    \/ k = <<>>
    \/ \E i \in 1..(Len(s) - Len(k) + 1) :
          s[i] = k[1] /\ \A j \in 2..Len(k) : s[i + j - 1] = k[j]

\* str.strip()
\* how many whitespace characters s begins with, and ends with
LeadingSpace(s) ==
    CHOOSE d \in 0..Len(s) :
        /\ \A j \in 1..d : s[j] \in Whitespace
        /\ d = Len(s) \/ s[d + 1] \notin Whitespace

TrailingSpace(s) ==
    CHOOSE d \in 0..Len(s) :
        /\ \A j \in (Len(s) - d + 1)..Len(s) : s[j] \in Whitespace
        /\ d = Len(s) \/ s[Len(s) - d] \notin Whitespace

strip(s) ==
    IF LeadingSpace(s) = Len(s) THEN <<>>
    ELSE SubSeq(s, LeadingSpace(s) + 1, Len(s) - TrailingSpace(s))

\* sep.join(parts)
RECURSIVE join(_, _)
join(sep, parts) ==
    IF parts = <<>> THEN <<>>
    ELSE IF Len(parts) = 1 THEN parts[1]
    ELSE parts[1] \o sep \o join(sep, Tail(parts))

\* s.split(","): the pieces between the commas, empty pieces included
RECURSIVE split(_, _)
split(s, sep) ==
    LET at == {i \in 1..Len(s) : s[i] = sep}
    IN  IF at = {} THEN <<s>>
        ELSE LET i == CHOOSE x \in at : \A y \in at : x <= y
             IN  <<SubSeq(s, 1, i - 1)>> \o split(SubSeq(s, i + 1, Len(s)), sep)

\* s[-n:]
LastChars(s, n) == IF Len(s) <= n THEN s ELSE SubSeq(s, Len(s) - n + 1, Len(s))

\* list(dict.fromkeys(xs)): the first occurrence of each entry, in order
dedupe(xs) ==
    LET first == {i \in 1..Len(xs) : \A j \in 1..(i - 1) : xs[j] # xs[i]}
        F[i \in 0..Len(xs)] ==
            IF i = 0 THEN <<>>
            ELSE IF i \in first THEN Append(F[i - 1], xs[i]) ELSE F[i - 1]
    IN  F[Len(xs)]

\* [f(x) for x in xs if keep(x)] for the comprehension "strip, drop the blanks"
AppendNonBlank(xs, x) == IF x # <<>> THEN Append(xs, x) ELSE xs

StripNonBlank(xs) ==
    LET F[i \in 0..Len(xs)] ==
            IF i = 0 THEN <<>> ELSE AppendNonBlank(F[i - 1], strip(xs[i]))
    IN  F[Len(xs)]

SeqToSet(xs) == {xs[i] : i \in 1..Len(xs)}

(***************************************************************************)
(* Keyword tables                                                          *)
(***************************************************************************)
STYLE_KEYWORDS ==
  << <<"MINIMEOL", <<<<"m", "i", "n", "i", "m", "a", "l">>, <<"MI", "NI", "MEOL">>, <<"KKAL", "KKEUM">>, <<"SIM", "PEUL">>, <<"JEONG", "GAL">>>>>>,
     <<"KEULRIN", <<<<"c", "l", "e", "a", "n">>, <<"KEUL", "RIN">>, <<"DAN", "JEONG">>, <<"JEONG", "DON">>>>>>,
     <<"SIKEU", <<<<"c", "h", "i", "c">>, <<"SI", "KEU">>, <<"DO", "SI", "JEOG">>, <<"CHA", "BUN">>>>>>,
     <<"REOBEULRI", <<<<"l", "o", "v", "e", "l", "y">>, <<"REO", "BEUL", "RI">>, <<"SA", "RANG", "SEU">>, <<"PO", "GEUN">>>>>>,
     <<"SEUTEURIS", <<<<"s", "t", "r", "e", "e", "t">>, <<"SEU", "TEU", "RIS">>, <<"HIB">>, <<"HIB", "HAN">>>>>>,
     <<"BINTIJI", <<<<"v", "i", "n", "t", "a", "g", "e">>, <<"BIN", "TI", "JI">>, <<"RE", "TEU", "RO">>>>>>,
     <<"KOJI", <<<<"c", "o", "z", "y">>, <<"KO", "JI">>, <<"PO", "GEUN">>, <<"TTA", "TTEUS">>, <<"BU", "DEU", "REOB">>>>>>,
     <<"MODEON", <<<<"m", "o", "d", "e", "r", "n">>, <<"MO", "DEON">>>>>>,
     <<"ABANGGAREUDEU", <<<<"a", "v", "a", "n", "t">>, <<"A", "BANG">>, <<"SIL", "HEOM", "JEOG">>>>>> >>

COLOR_KEYWORDS ==
  << <<"black", <<<<"BEUL", "RAEG">>, <<"GEOM", "JEONG">>, <<"GEOM", "EUN">>, <<"b", "l", "a", "c", "k">>>>>>,
     <<"white", <<<<"HWA", "I", "TEU">>, <<"HUIN">>, <<"w", "h", "i", "t", "e">>>>>>,
     <<"gray", <<<<"GEU", "RE", "I">>, <<"HOE", "SAEG">>, <<"g", "r", "a", "y">>>>>>,
     <<"navy", <<<<"NE", "I", "BI">>, <<"NAM", "SAEG">>, <<"n", "a", "v", "y">>>>>>,
     <<"beige", <<<<"BE", "I", "JI">>, <<"KA", "MEL">>, <<"b", "e", "i", "g", "e">>, <<"c", "a", "m", "e", "l">>>>>>,
     <<"brown", <<<<"BEU", "RA", "UN">>, <<"GAL", "SAEG">>, <<"b", "r", "o", "w", "n">>>>>>,
     <<"blue", <<<<"BEUL", "RU">>, <<"PA", "RANG">>, <<"b", "l", "u", "e">>>>>>,
     <<"green", <<<<"GEU", "RIN">>, <<"CHO", "ROG">>, <<"g", "r", "e", "e", "n">>, <<"OL", "RI", "BEU">>, <<"o", "l", "i", "v", "e">>>>>>,
     <<"red", <<<<"RE", "DEU">>, <<"PPAL", "GANG">>, <<"r", "e", "d">>>>>>,
     <<"pink", <<<<"PING", "KEU">>, <<"BUN", "HONG">>, <<"p", "i", "n", "k">>>>>>,
     <<"purple", <<<<"PEO", "PEUL">>, <<"BO", "RA">>, <<"p", "u", "r", "p", "l", "e">>>>>>,
     <<"pastel", <<<<"PA", "SEU", "TEL">>, <<"p", "a", "s", "t", "e", "l">>>>>>,
     <<"vivid", <<<<"BI", "BI", "DEU">>, <<"JJAENG">>, <<"SEON", "MYEONG">>, <<"v", "i", "v", "i", "d">>>>>>,
     <<"neutral", <<<<"NYU", "TEU", "REOL">>, <<"MU", "CHAE", "SAEG">>, <<"n", "e", "u", "t", "r", "a", "l">>, <<"MO", "NO", "TON">>, <<"MO", "NO">>>>>> >>

REASK_TRIGGERS ==
  <<<<"BA", "KKWO">>, <<"DA", "SI">>, <<"SAE", "RO">>, <<"DA", "REUN">>, <<"JAE", "CHU", "CHEON">>, <<"DA", "REU", "GE">>, <<"c", "h", "a", "n", "g", "e">>, <<"r", "e", "r", "o", "l", "l">>>>

\* the alternation (빼|제외|싫어|말고) of the regex, in its order
NegationMarkers == <<<<"PPAE">>, <<"JE", "OE">>, <<"SILH", "EO">>, <<"MAL", "GO">>>>

\* the markers of the colour test ["빼", "제외", "싫", "말고"]
ColorNegations == <<<<"PPAE">>, <<"JE", "OE">>, <<"SILH">>, <<"MAL", "GO">>>>

(***************************************************************************)
(* extract_signals                                                         *)
(***************************************************************************)
\* k occurs in s at position q
OccursAt(s, k, q) ==
    /\ q >= 1
    /\ q + Len(k) - 1 <= Len(s)
    /\ \A j \in 1..Len(k) : s[q + j - 1] = k[j]

\* length of the first alternative of the marker group that matches at q, or 0
MarkerAt(s, q) ==
    LET hit == {m \in 1..Len(NegationMarkers) : OccursAt(s, NegationMarkers[m], q)}
    IN  IF hit = {} THEN 0
        ELSE Len(NegationMarkers[CHOOSE m \in hit : \A n \in hit : m <= n])

\* last position of the run of word characters that starts at i
RunEnd(s, i) ==
    CHOOSE e \in i..Len(s) :
        /\ \A k \in i..e : IsWordChar(s[k])
        /\ e = Len(s) \/ ~IsWordChar(s[e + 1])

\* first position after p that holds no whitespace (Len(s)+1 if there is none)
SkipSpace(s, p) ==
    CHOOSE q \in (p + 1)..(Len(s) + 1) :
        /\ \A k \in (p + 1)..(q - 1) : s[k] \in Whitespace
        /\ q = Len(s) + 1 \/ s[q] \notin Whitespace

\* The match of ([가-힣a-z0-9]+)\s*(빼|제외|싫어|말고) that begins at i: the word
\* is greedy and gives characters back until a marker follows; [till |-> 0] if none.
MatchAt(s, i) ==
    IF ~IsWordChar(s[i]) THEN [till |-> 0, word |-> <<>>]
    ELSE
        LET e == RunEnd(s, i)
            after(p) == IF p = e THEN SkipSpace(s, p) ELSE p + 1
            ends == {p \in i..e : MarkerAt(s, after(p)) > 0}
        IN  IF ends = {} THEN [till |-> 0, word |-> <<>>]
            ELSE LET p == CHOOSE x \in ends : \A y \in ends : y <= x
                 IN  [till |-> after(p) + MarkerAt(s, after(p)) - 1,
                      word |-> SubSeq(s, i, p)]

\* re.findall: the words of the matches, leftmost first, not overlapping
RECURSIVE findall(_, _)
findall(s, from) ==
    LET starts == {i \in from..Len(s) : MatchAt(s, i).till > 0}
    IN  IF starts = {} THEN <<>>
        ELSE LET i == CHOOSE x \in starts : \A y \in starts : x <= y
                 m == MatchAt(s, i)
             IN  <<m.word>> \o findall(s, m.till + 1)

AnyKeyword(s, kws) == \E n \in 1..Len(kws) : Contains(s, lower(kws[n]))

\* the keys of a keyword table with a keyword in s, in table order
HitKeys(s, table) ==
    LET F[i \in 0..Len(table)] ==
            IF i = 0 THEN <<>>
            ELSE IF AnyKeyword(s, table[i][2]) THEN Append(F[i - 1], table[i][1])
                 ELSE F[i - 1]
    IN  F[Len(table)]

\* the return value of extract_signals, from the lists its loops filled
signals_of(prefer, words, colors, negated) ==
    [prefer_signals |-> prefer,
     avoid_signals |-> words,
     prefer_colors |-> IF negated THEN <<>> ELSE colors,
     avoid_colors |-> IF negated THEN colors ELSE <<>>,
     banned_from_text |-> words]

\* extract_signals on the lower-cased text s
extract_lowered(s) ==
    signals_of(dedupe(HitKeys(s, STYLE_KEYWORDS)),
               dedupe(SelectSeq(findall(s, 1), LAMBDA w : Len(w) >= 2)),
               dedupe(HitKeys(s, COLOR_KEYWORDS)),
               \E n \in 1..Len(ColorNegations) : Contains(s, ColorNegations[n]))

extract_signals(bundle_text) == extract_lowered(lower(bundle_text))

(***************************************************************************)
(* rebuild_profile                                                         *)
(***************************************************************************)
\* the length style_dna is cut to
StyleDnaMax == 2500

\* [str(x["text"]).strip() for x in mood_records if ...strip()]
mood_texts(records) == StripNonBlank([i \in 1..Len(records) |-> records[i].text])

ContentsOf(msgs) == [i \in 1..Len(msgs) |-> msgs[i].content]

\* the stripped content of the user's messages, blank ones dropped
chat_user_texts(chat_messages) ==
    StripNonBlank(ContentsOf(SelectSeq(chat_messages, LAMBDA m : m.role = "user")))

\* "\n".join(mood_texts + chat_user_texts).strip()[-2500:]
style_dna_of(records, chat_messages) ==
    LastChars(strip(join(<<"\n">>, mood_texts(records) \o chat_user_texts(chat_messages))),
              StyleDnaMax)

\* profile_with without "banned = list(dict.fromkeys(banned))"
profile_with_repeats(p, style_dna, sig, banned_manual) ==
    [p EXCEPT !.style_dna = style_dna,
              !.signals = [prefer_signals |-> sig.prefer_signals,
                           avoid_signals |-> sig.avoid_signals,
                           prefer_colors |-> sig.prefer_colors,
                           avoid_colors |-> sig.avoid_colors],
              !.banned_keywords = StripNonBlank(banned_manual) \o sig.banned_from_text]

\* the three entries rebuild_profile writes, from the text and its signals
profile_with(p, style_dna, sig, banned_manual) ==
    [p EXCEPT !.style_dna = style_dna,
              !.signals = [prefer_signals |-> sig.prefer_signals,
                           avoid_signals |-> sig.avoid_signals,
                           prefer_colors |-> sig.prefer_colors,
                           avoid_colors |-> sig.avoid_colors],
              !.banned_keywords = dedupe(StripNonBlank(banned_manual) \o sig.banned_from_text)]

profile_of(p, style_dna, banned_manual) ==
    profile_with(p, style_dna, extract_signals(style_dna), banned_manual)

\* rebuild_profile that returns a new dict with the defaults of a new session
\* in place of the one it was given
rebuild_profile_fresh(p, records, chat_messages, banned_manual) ==
    profile_of([warmth_bias |-> 0, style_dna |-> <<>>, signals |-> <<>>,
                banned_keywords |-> <<>>],
               style_dna_of(records, chat_messages), banned_manual)

\* rebuild_profile that keeps the style_dna it finds and appends the texts to it
rebuild_profile_appending(p, records, chat_messages, banned_manual) ==
    profile_of(p,
               LastChars(strip(join(<<"\n">>, <<p.style_dna>>
                                                \o mood_texts(records)
                                                \o chat_user_texts(chat_messages))),
                         StyleDnaMax),
               banned_manual)

rebuild_profile(p, records, chat_messages, banned_manual) ==
    profile_of(p, style_dna_of(records, chat_messages), banned_manual)

(***************************************************************************)
(* Wardrobe                                                                *)
(***************************************************************************)
\* A JSON value that is a list, and one that is not (a number, a string, ...)
List(items) == [kind |-> "list", items |-> items]
NotAList == [kind |-> "other", items |-> <<>>]

\* A JSON document that is an object, and one that is not
Dict(map) == [kind |-> "dict", map |-> map]
NotADict == [kind |-> "other", map |-> <<>>]

Categories == <<"tops", "bottoms", "outer", "shoes", "extras">>
CategorySet == SeqToSet(Categories)

default_wardrobe ==
    [tops |-> List(<<
        [name |-> <<"HWA", "I", "TEU", " ", "SYEO", "CHEU">>, tags |-> <<"formal", "smart", "neutral", "clean">>, warmth |-> 20],
        [name |-> <<"MAEN", "TU", "MAEN">>, tags |-> <<"casual", "cozy">>, warmth |-> 30],
        [name |-> <<"BEUL", "RAEG", " ", "NI", "TEU">>, tags |-> <<"smart", "casual", "black", "minimal">>, warmth |-> 40]>>),
     bottoms |-> List(<<
        [name |-> <<"CHEONG", "BA", "JI">>, tags |-> <<"casual">>, warmth |-> 20],
        [name |-> <<"SEUL", "RAEG", "SEU">>, tags |-> <<"formal", "smart", "clean">>, warmth |-> 20],
        [name |-> <<"JO", "GEO", "PAEN", "CHEU">>, tags |-> <<"sport", "casual", "cozy">>, warmth |-> 20]>>),
     outer |-> List(<<
        [name |-> <<"JA", "KES", "(", "BEUL", "RE", "I", "JEO", ")">>, tags |-> <<"formal", "smart", "clean">>, warmth |-> 30, rain_ok |-> FALSE],
        [name |-> <<"BA", "RAM", "MAG", "I">>, tags |-> <<"outdoor", "sport", "casual">>, warmth |-> 20, rain_ok |-> TRUE],
        [name |-> <<"PAE", "DING">>, tags |-> <<"casual", "cozy">>, warmth |-> 60, rain_ok |-> TRUE]>>),
     shoes |-> List(<<
        [name |-> <<"SEU", "NI", "KEO", "JEU">>, tags |-> <<"casual", "street", "sport">>, rain_ok |-> TRUE],
        [name |-> <<"RO", "PEO">>, tags |-> <<"formal", "smart", "clean">>, rain_ok |-> FALSE]>>),
     extras |-> List(<<
        [name |-> <<"U", "SAN">>, tags |-> <<"rain">>],
        [name |-> <<"MEO", "PEUL", "REO">>, tags |-> <<"cold", "cozy">>]>>)]

\* normalize_wardrobe with "not w[k]" as its test: an empty list is refilled too
normalize_wardrobe_refill(w) ==
    IF w.kind # "dict" THEN default_wardrobe
    ELSE [k \in DOMAIN w.map \cup CategorySet |->
            IF k \in CategorySet /\ (k \notin DOMAIN w.map \/ w.map[k].kind # "list"
                                     \/ w.map[k].items = <<>>)
            THEN default_wardrobe[k]
            ELSE w.map[k]]

\* w is a JSON document; the result is the dict the session keeps
normalize_wardrobe(w) ==
    IF w.kind # "dict" THEN default_wardrobe
    ELSE [k \in DOMAIN w.map \cup CategorySet |->
            IF k \in CategorySet /\ (k \notin DOMAIN w.map \/ w.map[k].kind # "list")
            THEN default_wardrobe[k]
            ELSE w.map[k]]

(***************************************************************************)
(* Outfit engine                                                           *)
(***************************************************************************)
None == [none |-> TRUE]

\* dict.get(key, default)
Get(d, key, default) == IF key \in DOMAIN d THEN d[key] ELSE default

temp_band(feels_c) ==
    IF feels_c <= 0 THEN "MAEU CHUUM"
    ELSE IF feels_c <= 8 THEN "CHUUM"
    ELSE IF feels_c <= 16 THEN "SSALSSAL"
    ELSE IF feels_c <= 23 THEN "JEOGDANG"
    ELSE IF feels_c <= 29 THEN "DEOUM"
    ELSE "MAEU DEOUM"

Max(a, b) == IF a >= b THEN a ELSE b
Abs(a) == IF a >= 0 THEN a ELSE 0 - a

\* in tenths: 6 is 60, 3.5 is 35
ideal_warmth(feels_c, bias) ==
    LET band == temp_band(feels_c)
        base == CASE band = "MAEU CHUUM" -> 60
                  [] band = "CHUUM" -> 50
                  [] band = "SSALSSAL" -> 35
                  [] band = "JEOGDANG" -> 25
                  [] band = "DEOUM" -> 15
                  [] band = "MAEU DEOUM" -> 5
    IN  Max(0, base + bias)

\* the tag a style label stands for, "" if none
tag_guess(p) ==
    CASE p = "MINIMEOL" -> "minimal"
      [] p = "KEULRIN" -> "clean"
      [] p = "SIKEU" -> "chic"
      [] p = "REOBEULRI" -> "lovely"
      [] p = "SEUTEURIS" -> "street"
      [] p = "BINTIJI" -> "vintage"
      [] p = "KOJI" -> "cozy"
      [] p = "MODEON" -> "modern"
      [] p = "ABANGGAREUDEU" -> "avant"
      [] OTHER -> ""

\* banned_penalty with the keyword looked up in the name as it is written
banned_penalty_as_written(item, p) ==
    0 - 70 * Len(SelectSeq(Get(p, "banned_keywords", <<>>),
                           LAMBDA b : Contains(Get(item, "name", <<>>), lower(b))))

\* "for b in banned_keywords: if b.lower() in name: score -= 7.0", name being the
\* lower-cased name of the item
banned_penalty(item, p) ==
    0 - 70 * Len(SelectSeq(Get(p, "banned_keywords", <<>>),
                           LAMBDA b : Contains(lower(Get(item, "name", <<>>)), lower(b))))

\* rain_score with the category not looked at: what is not rain_ok loses 1.0
rain_score_any_category(item, w, category) ==
    IF w.rain
    THEN IF Get(item, "rain_ok", FALSE) THEN 5 ELSE 0 - 10
    ELSE 0

\* "if weather.rain: +0.5 if rain_ok or category not in (outer, shoes) else -1.0"
rain_score(item, w, category) ==
    IF w.rain
    THEN IF Get(item, "rain_ok", FALSE) \/ category \notin {"outer", "shoes"}
         THEN 5 ELSE 0 - 10
    ELSE 0

\* warmth_score without the max(0.0, ...): a far-off warmth costs points
warmth_score_unclamped(item, p, w, category) ==
    IF category \in {"tops", "bottoms", "outer"}
    THEN 22 - Abs(Get(item, "warmth", 0)
                  - ideal_warmth(w.feels_c, Get(p, "warmth_bias", 0)))
    ELSE 0

\* "if category in (tops, bottoms, outer): score += max(0.0, 2.2 - abs(warmth - target))"
warmth_score(item, p, w, category) ==
    IF category \in {"tops", "bottoms", "outer"}
    THEN Max(0, 22 - Abs(Get(item, "warmth", 0)
                         - ideal_warmth(w.feels_c, Get(p, "warmth_bias", 0))))
    ELSE 0

\* The score of one item, in tenths.  temp_ban is what the function reads from
\* st.session_state.temp_ban_items.
score_item(item, wanted_tags, p, w, category, temp_ban) ==
    LET tags == SeqToSet(Get(item, "tags", <<>>))
        sig == Get(p, "signals", [prefer_signals |-> <<>>])
        tagScore == 20 * Len(SelectSeq(wanted_tags, LAMBDA t : t \in tags))
        preferScore ==
            10 * Len(SelectSeq(Get(sig, "prefer_signals", <<>>),
                               LAMBDA x : tag_guess(x) # "" /\ tag_guess(x) \in tags))
        rainScore == rain_score(item, w, category)
        warmthScore == warmth_score(item, p, w, category)
        bannedScore == banned_penalty(item, p)
        tempBanScore ==
            IF Get(item, "name", <<>>) \in SeqToSet(temp_ban) THEN 0 - 9990 ELSE 0
    IN  tagScore + preferScore + rainScore + warmthScore + bannedScore + tempBanScore

\* pick_best with no test for an empty list: an empty dict as the pick
pick_best_placeholder(items, wanted_tags, p, w, category, temp_ban) ==
    LET sc(i) == score_item(items[i], wanted_tags, p, w, category, temp_ban)
    IN  IF items = <<>> THEN [name |-> <<>>]
        ELSE items[CHOOSE i \in 1..Len(items) :
                      /\ \A j \in 1..Len(items) : sc(j) <= sc(i)
                      /\ \A j \in 1..(i - 1) : sc(j) < sc(i)]

\* pick_best with the ranking sorted in ascending order: the first item with the
\* lowest score
pick_best_ascending(items, wanted_tags, p, w, category, temp_ban) ==
    IF items = <<>> THEN None
    ELSE LET sc(i) == score_item(items[i], wanted_tags, p, w, category, temp_ban)
             best == CHOOSE i \in 1..Len(items) :
                        /\ \A j \in 1..Len(items) : sc(j) >= sc(i)
                        /\ \A j \in 1..(i - 1) : sc(j) > sc(i)
         IN  items[best]

\* ranked.sort(reverse=True) is stable: the first item with the highest score
pick_best(items, wanted_tags, p, w, category, temp_ban) ==
    IF items = <<>> THEN None
    ELSE LET sc(i) == score_item(items[i], wanted_tags, p, w, category, temp_ban)
             best == CHOOSE i \in 1..Len(items) :
                        /\ \A j \in 1..Len(items) : sc(j) <= sc(i)
                        /\ \A j \in 1..(i - 1) : sc(j) < sc(i)
         IN  items[best]

\* build_outfit with outer picked whatever the weather
build_outfit_always_outer(wd, w, tags, p, temp_ban) ==
    [top |-> pick_best(wd["tops"].items, dedupe(tags), p, w, "tops", temp_ban),
     bottom |-> pick_best(wd["bottoms"].items, dedupe(tags), p, w, "bottoms", temp_ban),
     outer |-> pick_best(wd["outer"].items, dedupe(tags), p, w, "outer", temp_ban),
     shoes |-> pick_best(wd["shoes"].items, dedupe(tags), p, w, "shoes", temp_ban),
     extras |-> (IF w.rain THEN <<"USAN">> ELSE <<>>)
                \o (IF w.feels_c <= 8 THEN <<"MEOPEULREO">> ELSE <<>>)]

build_outfit(wd, w, tags, p, temp_ban) ==
    LET wanted == dedupe(tags)
        need_outer == w.feels_c <= 16 \/ w.rain \/ w.wind_ms >= 70
    IN  [top |-> pick_best(wd["tops"].items, wanted, p, w, "tops", temp_ban),
         bottom |-> pick_best(wd["bottoms"].items, wanted, p, w, "bottoms", temp_ban),
         outer |-> IF need_outer THEN pick_best(wd["outer"].items, wanted, p, w, "outer", temp_ban) ELSE None,
         shoes |-> pick_best(wd["shoes"].items, wanted, p, w, "shoes", temp_ban),
         extras |-> (IF w.rain THEN <<"USAN">> ELSE <<>>)
                    \o (IF w.feels_c <= 8 THEN <<"MEOPEULREO">> ELSE <<>>)]

\* the palette of the temperature band
default_palette(feels_c) ==
    IF feels_c <= 8 THEN [base |-> "navy", accent |-> "beige"]
    ELSE IF feels_c <= 16 THEN [base |-> "gray", accent |-> "navy"]
    ELSE IF feels_c <= 23 THEN [base |-> "neutral", accent |-> "blue"]
    ELSE [base |-> "white", accent |-> "green"]

\* the adjustment of the palette for formal and smart occasions
occasion_adjusted(c, tpo_tags_) ==
    IF \E t \in {"formal", "smart"} : t \in SeqToSet(tpo_tags_)
    THEN [base |-> IF c.base \in {"white", "green", "pink"} THEN "navy" ELSE c.base,
          accent |-> IF c.accent \in {"red", "pink", "vivid"} THEN "white" ELSE c.accent]
    ELSE c

\* base and accent: the preferred colours that are not avoided, or the palette
base_accent(prefer, w, tpo_tags_) ==
    IF prefer # <<>>
    THEN [base |-> prefer[1], accent |-> IF Len(prefer) > 1 THEN prefer[2] ELSE "neutral"]
    ELSE occasion_adjusted(default_palette(w.feels_c), tpo_tags_)

color_hints(c, avoid, w) ==
    [base |-> c.base,
     accent |-> c.accent,
     bottom_hint |-> IF w.rain THEN "dark" ELSE IF c.base = "white" THEN "navy" ELSE "gray",
     shoe_hint |-> IF "black" \notin avoid THEN "black" ELSE "navy"]

signal_colors(sig, key) == Get(sig, key, <<>>)

colors_from(sig, w, tpo_tags_) ==
    color_hints(base_accent(SelectSeq(signal_colors(sig, "prefer_colors"),
                                      LAMBDA c : c \notin SeqToSet(signal_colors(sig, "avoid_colors"))),
                            w, tpo_tags_),
                SeqToSet(signal_colors(sig, "avoid_colors")), w)

recommend_colors(w, tpo_tags_, p) ==
    colors_from(Get(p, "signals", [prefer_colors |-> <<>>]), w, tpo_tags_)

(***************************************************************************)
(* The script run                                                          *)
(*                                                                         *)
(* Streamlit runs the whole script once per user event; st.rerun() ends    *)
(* the run and starts it again with no event.  An action below is a user   *)
(* event together with the runs it causes, up to the run that ends with no *)
(* st.rerun().                                                             *)
(***************************************************************************)
PageToday == "ONEUL CHUCHEON"
PageSaved == "JEOJANGHAN KODI"
PageWardrobe == "OSJANG GWANRI"
PageShop == "GUMAE CHUCHEON"
Pages == {PageToday, PageSaved, PageWardrobe, PageShop}

NoUpload == [kind |-> "none", map |-> <<>>]

\* The ban-list text input has no key: its identity includes its default value,
\* so a changed default makes it a new widget that returns the default.
banned_text_input(widget, value) ==
    IF widget.default = value THEN widget ELSE [default |-> value, text |-> value]

\* banned_manual = [x.strip() for x in banned_text.split(",") if x.strip()]
banned_manual_of(banned_text) == StripNonBlank(split(banned_text, ","))

\* Session init and the sidebar, up to "Rebuild profile every run": the wardrobe,
\* the ban-list widget and the preferences after it.
SidebarWith(wd, p, bw, records, msgs) ==
    [wardrobe |-> normalize_wardrobe(Dict(wd)),
     banned_widget |-> bw,
     prefs |-> rebuild_profile(p, records, msgs, banned_manual_of(bw.text))]

Sidebar(wd, p, widget, records, msgs) ==
    SidebarWith(wd, p,
                banned_text_input(widget, join(<<",">>, Get(p, "banned_keywords", <<>>))),
                records, msgs)

\* edit_dialog_guard with "idx > len(wardrobe[cat])" as its test
edit_dialog_guard_off_by_one(wd, target) ==
    IF target = None THEN None
    ELSE IF \/ target.cat \notin DOMAIN wd
            \/ target.idx < 0
            \/ target.idx > Len(wd[target.cat].items)
         THEN None
         ELSE target

\* edit_dialog() up to its buttons: an invalid target is dropped
edit_dialog_guard(wd, target) ==
    IF target = None THEN None
    ELSE IF \/ target.cat \notin DOMAIN wd
            \/ target.idx < 0
            \/ target.idx >= Len(wd[target.cat].items)
         THEN None
         ELSE target

\* One run of the script with no event, and the reruns a held upload causes:
\* the values of the variables a run writes.
\* the page part of a run, s being what the sidebar part left
PageRun(s, up, target, pg, w, tags) ==
    [wardrobe |-> IF pg = PageWardrobe /\ up # NoUpload
                  THEN normalize_wardrobe(up) ELSE s.wardrobe,
     edit_target |-> IF pg = PageWardrobe /\ up = NoUpload
                     THEN edit_dialog_guard(s.wardrobe, target) ELSE target,
     prefs |-> s.prefs,
     banned_widget |-> s.banned_widget,
     outfit |-> IF pg = PageToday
                THEN build_outfit(s.wardrobe, w, tags, s.prefs, temp_ban_items)
                ELSE None,
     color_plan |-> IF pg = PageToday THEN recommend_colors(w, tags, s.prefs) ELSE None,
     dialog_error |-> /\ pg = PageWardrobe
                      /\ up = NoUpload
                      /\ target # None
                      /\ edit_dialog_guard(s.wardrobe, target) = None,
     ban_seen |-> IF pg = PageToday THEN temp_ban_items ELSE <<>>]

Pass(wd, up, target, p, widget, records, msgs, pg, w, tags) ==
    PageRun(Sidebar(wd, p, widget, records, msgs), up, target, pg, w, tags)

\* the variables take the values a run left
Ran(r) ==
    /\ wardrobe' = r.wardrobe
    /\ edit_target' = r.edit_target
    /\ prefs' = r.prefs
    /\ banned_widget' = r.banned_widget
    /\ outfit' = r.outfit
    /\ color_plan' = r.color_plan
    /\ dialog_error' = r.dialog_error
    /\ ban_seen' = r.ban_seen

\* the event is on record
Logged(kind, arg) ==
    /\ ev' = [kind |-> kind, arg |-> arg]
    /\ nev' = nev + 1
    /\ banned_typed' = IF kind = "ban" THEN arg ELSE banned_typed

\* an event that is no save, no delete of a saved outfit and no change of date
Event(kind, arg) ==
    /\ Logged(kind, arg)
    /\ UNCHANGED <<saved_outfits, target_date>>

(***************************************************************************)
(* Bounds and inputs                                                       *)
(***************************************************************************)
\* user events in one session
MaxEvents == 3

\* "블랙은 빼줘", "블랙 빼줘", "다시", "깔끔 미니멀"
TextBlackEun == <<"BEUL", "RAEG", "EUN", " ", "PPAE", "JWO">>
TextBlack == <<"BEUL", "RAEG", " ", "PPAE", "JWO">>
TextRedo == <<"DA", "SI">>
TextMinimal == <<"KKAL", "KKEUM", " ", "MI", "NI", "MEOL">>
Texts == {TextBlackEun, TextBlack, TextRedo, TextMinimal}

\* what the user types into the ban list: "로퍼", "Black, 니트" and nothing
BanTexts == {<<"RO", "PEO">>, <<"B", "l", "a", "c", "k", ",", " ", "NI", "TEU">>, <<>>}

Weathers ==
    {[feels_c |-> 15, rain |-> FALSE, wind_ms |-> 15],
     [feels_c |-> 5, rain |-> FALSE, wind_ms |-> 15],
     [feels_c |-> 25, rain |-> TRUE, wind_ms |-> 80]}

TagLists == {<<"casual">>, <<"formal", "smart">>}

\* "Black Tee" and "블랙 부츠"
NewItems ==
    {<<"tops", [name |-> <<"B", "l", "a", "c", "k", " ", "T", "e", "e">>, tags |-> <<"casual", "street">>, warmth |-> 45]>>,
     <<"shoes", [name |-> <<"BEUL", "RAEG", " ", "BU", "CHEU">>, tags |-> <<"casual", "formal">>, rain_ok |-> TRUE]>>}

\* the names typed into the edit dialog: "그레이 후드티" and a blank
EditNames == {<<"GEU", "RE", "I", " ", "HU", "DEU", "TI">>, <<" ">>}

\* uploaded JSON documents: not an object; an object with one list, one value
\* that is no list and a key of its own; an object with empty lists
Uploads ==
    {NotADict,
     Dict([tops |-> List(<<[name |-> <<"PAE", "DING">>, tags |-> <<"cozy">>, warmth |-> 60]>>),
           shoes |-> NotAList,
           hats |-> List(<<>>)]),
     Dict([tops |-> List(<<>>), bottoms |-> List(<<>>), outer |-> List(<<>>),
           shoes |-> List(<<>>), extras |-> List(<<>>)])}

(***************************************************************************)
(* The session                                                             *)
(***************************************************************************)
InitialPrefs ==
    [warmth_bias |-> 0,
     style_dna |-> <<>>,
     signals |-> [prefer_signals |-> <<>>, avoid_signals |-> <<>>,
                  prefer_colors |-> <<>>, avoid_colors |-> <<>>],
     banned_keywords |-> <<>>]

InitialWeather == [feels_c |-> 15, rain |-> FALSE, wind_ms |-> 15]

\* the variables have the values the first run left
Started(r) ==
    /\ wardrobe = r.wardrobe
    /\ edit_target = r.edit_target
    /\ prefs = r.prefs
    /\ banned_widget = r.banned_widget
    /\ outfit = r.outfit
    /\ color_plan = r.color_plan
    /\ dialog_error = r.dialog_error
    /\ ban_seen = r.ban_seen

\* saved_outfits = {}
NoSaved == [k \in {} |-> <<>>]

\* the date the date input starts with, as year, month and day
Today == [y |-> 2026, m |-> 1, d |-> 9]

\* a session after a script run on page pg with no event, with wardrobe wd,
\* preferences p and mood records as the run found them
InitOn(wd, p, records, pg) ==
    /\ uploaded = NoUpload
    /\ mood_records = records
    /\ messages = <<>>
    /\ saved_outfits = NoSaved
    /\ target_date = Today
    /\ temp_ban_items = <<>>
    /\ last_outfit = [top |-> None, bottom |-> None, outer |-> None, shoes |-> None]
    /\ page = pg
    /\ weather = InitialWeather
    /\ tpo_tags = <<"casual">>
    /\ ev = [kind |-> "start", arg |-> <<>>]
    /\ nev = 0
    /\ banned_typed = <<>>
    /\ Started(Pass(wd, NoUpload, None, p, [default |-> <<>>, text |-> <<>>], records,
                    <<>>, pg, InitialWeather, <<"casual">>))

\* a session after its first script run, which is on the page "오늘 추천"
InitWith(wd, p, records) == InitOn(wd, p, records, PageToday)

\* the session after its first script run
Init == InitWith(default_wardrobe, InitialPrefs, <<>>)

\* the run every user event is followed by, from the session as the event left it
RunAfter(wd, up, target, p, widget, records, msgs, pg, w, tags) ==
    Ran(Pass(wd, up, target, p, widget, records, msgs, pg, w, tags))

\* The run an event on a page ends with st.rerun(): s is what the sidebar part of
\* the event's run left, with the handler's change; the next run starts from it.
RunFrom(s, msgs, target) ==
    RunAfter(s.wardrobe, uploaded, target, s.prefs, s.banned_widget, mood_records, msgs,
             page, weather, tpo_tags)

\* the wardrobe a handler finds: session init normalized it
SessionWardrobe == normalize_wardrobe(Dict(wardrobe))

\* the sidebar part of the event's run, then a handler that writes wd as the
\* wardrobe and normalizes it
SidebarThen(wd) ==
    [Sidebar(wardrobe, prefs, banned_widget, mood_records, messages)
        EXCEPT !.wardrobe = normalize_wardrobe(Dict(wd))]

\* ---- sidebar ----
\* "무드 저장": the record is appended, st.rerun()
AddMood(t) ==
    /\ nev < MaxEvents
    /\ strip(t) # <<>>
    /\ mood_records' = Append(mood_records, [text |-> strip(t)])
    /\ RunAfter(wardrobe, uploaded, edit_target, prefs, banned_widget,
                mood_records', messages, page, weather, tpo_tags)
    /\ Event("mood", t)
    /\ UNCHANGED <<uploaded, messages, temp_ban_items, last_outfit, page, weather, tpo_tags>>

\* "삭제" of mood record i: mood_records.pop(i), st.rerun()
DeleteMood(i) ==
    /\ nev < MaxEvents
    /\ i \in 1..Len(mood_records)
    /\ mood_records' = SubSeq(mood_records, 1, i - 1) \o SubSeq(mood_records, i + 1, Len(mood_records))
    /\ RunAfter(wardrobe, uploaded, edit_target, prefs, banned_widget,
                mood_records', messages, page, weather, tpo_tags)
    /\ Event("delmood", i)
    /\ UNCHANGED <<uploaded, messages, temp_ban_items, last_outfit, page, weather, tpo_tags>>

\* the user edits the ban-list text input
TypeBanned(t) ==
    /\ nev < MaxEvents
    /\ t # banned_widget.text
    /\ RunAfter(wardrobe, uploaded, edit_target, prefs, [banned_widget EXCEPT !.text = t],
                mood_records, messages, page, weather, tpo_tags)
    /\ Event("ban", t)
    /\ UNCHANGED <<uploaded, mood_records, messages, temp_ban_items, last_outfit, page,
                   weather, tpo_tags>>

\* the menu radio; the uploader keeps its file only while its page is drawn
SetPage(pg) ==
    /\ nev < MaxEvents
    /\ pg # page
    /\ page' = pg
    /\ uploaded' = IF pg = PageWardrobe THEN uploaded ELSE NoUpload
    /\ RunAfter(wardrobe, uploaded', edit_target, prefs, banned_widget,
                mood_records, messages, pg, weather, tpo_tags)
    /\ Event("page", pg)
    /\ UNCHANGED <<mood_records, messages, temp_ban_items, last_outfit, weather, tpo_tags>>

\* the weather sliders
SetWeather(w) ==
    /\ nev < MaxEvents
    /\ w # weather
    /\ weather' = w
    /\ RunAfter(wardrobe, uploaded, edit_target, prefs, banned_widget,
                mood_records, messages, page, w, tpo_tags)
    /\ Event("weather", w)
    /\ UNCHANGED <<uploaded, mood_records, messages, temp_ban_items, last_outfit, page, tpo_tags>>

\* the day's events change: other TPO tags
SetTPO(tags) ==
    /\ nev < MaxEvents
    /\ tags # tpo_tags
    /\ tpo_tags' = tags
    /\ RunAfter(wardrobe, uploaded, edit_target, prefs, banned_widget,
                mood_records, messages, page, weather, tags)
    /\ Event("tpo", tags)
    /\ UNCHANGED <<uploaded, mood_records, messages, temp_ban_items, last_outfit, page, weather>>

\* ---- page "오늘 추천" ----
AssistantReply == [role |-> "assistant", content |-> <<"reply">>]

\* st.chat_input: the run reaches the handler after the sidebar, the two
\* messages are appended, st.rerun()
Chat(t) ==
    /\ nev < MaxEvents
    /\ page = PageToday
    /\ t # <<>>
    /\ messages' = messages \o <<[role |-> "user", content |-> t], AssistantReply>>
    /\ RunFrom(Sidebar(wardrobe, prefs, banned_widget, mood_records, messages),
               messages', edit_target)
    /\ Event("chat", t)
    /\ UNCHANGED <<uploaded, mood_records, temp_ban_items, last_outfit, page, weather, tpo_tags>>

\* ---- page "옷장 관리" ----
\* the list without its entry i (1-based): list.pop(i - 1)
Pop(xs, i) == SubSeq(xs, 1, i - 1) \o SubSeq(xs, i + 1, Len(xs))

\* "추가" with a name: the item is appended, the wardrobe normalized, st.rerun()
AddItem(c, item) ==
    /\ nev < MaxEvents
    /\ page = PageWardrobe
    /\ strip(item.name) # <<>>
    /\ RunFrom(SidebarThen([SessionWardrobe EXCEPT ![c] = List(Append(@.items, item))]),
               messages, edit_target)
    /\ Event("add", <<c, item>>)
    /\ UNCHANGED <<uploaded, mood_records, messages, temp_ban_items, last_outfit, page,
                   weather, tpo_tags>>

\* "삭제" of item i of category c: pop, normalize, st.rerun()
DeleteItem(c, i) ==
    /\ nev < MaxEvents
    /\ page = PageWardrobe
    /\ i \in 1..Len(wardrobe[c].items)
    /\ RunFrom(SidebarThen([SessionWardrobe EXCEPT ![c] = List(Pop(@.items, i))]),
               messages, edit_target)
    /\ Event("delete", <<c, i>>)
    /\ UNCHANGED <<uploaded, mood_records, messages, temp_ban_items, last_outfit, page,
                   weather, tpo_tags>>

open_edit_dialog(cat, idx) == [cat |-> cat, idx |-> idx]

\* "수정" of item i of category c: the target is set, st.rerun()
OpenEdit(c, i) ==
    /\ nev < MaxEvents
    /\ page = PageWardrobe
    /\ i \in 1..Len(wardrobe[c].items)
    /\ RunFrom(Sidebar(wardrobe, prefs, banned_widget, mood_records, messages),
               messages, open_edit_dialog(c, i - 1))
    /\ Event("edit", <<c, i>>)
    /\ UNCHANGED <<uploaded, mood_records, messages, temp_ban_items, last_outfit, page,
                   weather, tpo_tags>>

wardrobe_item_defaults(cat) ==
    LET d == [name |-> <<>>, tags |-> <<>>]
        dw == IF cat \in {"tops", "bottoms", "outer"} THEN d @@ [warmth |-> 30] ELSE d
    IN  IF cat \in {"outer", "shoes"} THEN dw @@ [rain_ok |-> FALSE] ELSE dw

\* the item the dialog's "저장" writes: {**defaults, **it} with the new name
edited_item(cat, it, new_name) ==
    LET merged == it @@ wardrobe_item_defaults(cat)
    IN  [merged EXCEPT !.name = strip(new_name)]

\* The dialog is open (a target is set and the last run drew it).  "저장": the
\* dialog function runs alone; a blank name is refused, otherwise the item is
\* written, the wardrobe normalized, the target cleared, st.rerun()
DialogSave(new_name) ==
    /\ nev < MaxEvents
    /\ page = PageWardrobe
    /\ uploaded = NoUpload
    /\ edit_target # None
    /\ LET tgt == edit_dialog_guard(wardrobe, edit_target)
       IN  IF tgt = None
           THEN /\ edit_target' = None
                /\ dialog_error' = TRUE
                /\ UNCHANGED <<wardrobe, prefs, banned_widget, outfit, color_plan, ban_seen>>
           ELSE IF strip(new_name) = <<>>
           THEN /\ dialog_error' = FALSE
                /\ UNCHANGED <<wardrobe, edit_target, prefs, banned_widget, outfit,
                               color_plan, ban_seen>>
           ELSE LET it == edited_item(tgt.cat, wardrobe[tgt.cat].items[tgt.idx + 1], new_name)
                    w1 == [wardrobe EXCEPT ![tgt.cat] =
                              List([@.items EXCEPT ![tgt.idx + 1] = it])]
                IN  RunAfter(normalize_wardrobe(Dict(w1)), uploaded, None, prefs,
                             banned_widget, mood_records, messages, page, weather, tpo_tags)
    /\ Event("save", new_name)
    /\ UNCHANGED <<uploaded, mood_records, messages, temp_ban_items, last_outfit, page,
                   weather, tpo_tags>>

\* the dialog's "취소": the target is cleared, st.rerun()
DialogCancel ==
    /\ nev < MaxEvents
    /\ page = PageWardrobe
    /\ uploaded = NoUpload
    /\ edit_target # None
    /\ RunAfter(wardrobe, uploaded, None, prefs, banned_widget, mood_records, messages,
                page, weather, tpo_tags)
    /\ Event("cancel", <<>>)
    /\ UNCHANGED <<uploaded, mood_records, messages, temp_ban_items, last_outfit, page,
                   weather, tpo_tags>>

\* a JSON file is put into the uploader: every run restores it and calls
\* st.rerun() as long as the uploader holds it
UploadJSON(j) ==
    /\ nev < MaxEvents
    /\ page = PageWardrobe
    /\ j # uploaded
    /\ uploaded' = j
    /\ RunAfter(wardrobe, j, edit_target, prefs, banned_widget, mood_records, messages,
                page, weather, tpo_tags)
    /\ Event("upload", j)
    /\ UNCHANGED <<mood_records, messages, temp_ban_items, last_outfit, page, weather, tpo_tags>>

\* the file is taken out of the uploader
ClearUpload ==
    /\ nev < MaxEvents
    /\ page = PageWardrobe
    /\ uploaded # NoUpload
    /\ uploaded' = NoUpload
    /\ RunAfter(wardrobe, NoUpload, edit_target, prefs, banned_widget, mood_records,
                messages, page, weather, tpo_tags)
    /\ Event("unload", <<>>)
    /\ UNCHANGED <<mood_records, messages, temp_ban_items, last_outfit, page, weather, tpo_tags>>

\* "샘플 옷장으로 초기화", reached only when no upload restarts the run before it
ResetSample ==
    /\ nev < MaxEvents
    /\ page = PageWardrobe
    /\ uploaded = NoUpload
    /\ RunFrom(SidebarThen(default_wardrobe), messages, edit_target)
    /\ Event("reset", <<>>)
    /\ UNCHANGED <<uploaded, mood_records, messages, temp_ban_items, last_outfit, page,
                   weather, tpo_tags>>

\* ---- saved outfits ----
\* saved outfits one session may hold, over the events of MaxEvents
MaxSaved == 2

Digits == <<"0", "1", "2", "3", "4", "5", "6", "7", "8", "9">>

\* n as a decimal number of the given width, zero-padded: strftime's %Y, %m, %d
Padded(n, width) == [i \in 1..width |-> Digits[((n \div (10 ^ (width - i))) % 10) + 1]]

\* d.strftime("%Y-%m-%d")
date_key(d) == Padded(d.y, 4) \o <<"-">> \o Padded(d.m, 2) \o <<"-">> \o Padded(d.d, 2)

\* the dates the date input is set to: today, the day after, the last day of
\* the year before
Dates == {Today, [y |-> 2026, m |-> 1, d |-> 10], [y |-> 2025, m |-> 12, d |-> 31]}

\* an item with the keys a saved outfit keeps; None for what is no dict
safe_item(it) ==
    IF it = None THEN None
    ELSE [k \in DOMAIN it \cap {"name", "tags", "warmth", "rain_ok", "image_b64", "image_mime"}
            |-> it[k]]

\* The saved outfit.  saved_at is the time of the click, which the model counts
\* in events; the texts tpo_summary and reasons are no part of the model's state.
make_favorite_payload(d, o, w, tags, colors, now) ==
    [date |-> date_key(d),
     saved_at |-> now,
     tpo_tags |-> tags,
     weather |-> w,
     colors |-> colors,
     outfit |-> [top |-> safe_item(o.top), bottom |-> safe_item(o.bottom),
                 outer |-> safe_item(o.outer), shoes |-> safe_item(o.shoes),
                 extras |-> o.extras]]

\* "saved_outfits.setdefault(k, []); saved_outfits[k].insert(0, payload)"
with_saved(saved, k, payload) ==
    [key \in DOMAIN saved \cup {k} |->
        IF key = k THEN <<payload>> \o (IF k \in DOMAIN saved THEN saved[k] ELSE <<>>)
        ELSE saved[key]]

\* without_saved with the date kept when its list is empty
without_saved_keep_date(saved, sel, i) == [saved EXCEPT ![sel] = Pop(@, i)]

\* "saved_outfits[sel].pop(i); if not saved_outfits[sel]: del saved_outfits[sel]"
without_saved(saved, sel, i) ==
    [key \in IF Len(saved[sel]) = 1 THEN DOMAIN saved \ {sel} ELSE DOMAIN saved |->
        IF key = sel THEN Pop(saved[sel], i) ELSE saved[key]]

\* the date input of the sidebar
SetDate(d) ==
    /\ nev < MaxEvents
    /\ d # target_date
    /\ target_date' = d
    /\ RunAfter(wardrobe, uploaded, edit_target, prefs, banned_widget,
                mood_records, messages, page, weather, tpo_tags)
    /\ Logged("date", d)
    /\ UNCHANGED <<uploaded, mood_records, messages, temp_ban_items, last_outfit, page,
                   weather, tpo_tags, saved_outfits>>

\* "이 코디 저장": the run computes the outfit and the colour plan, the handler
\* saves them under the date's key; no st.rerun()
SaveOutfit ==
    /\ nev < MaxEvents + MaxSaved
    /\ page = PageToday
    /\ RunAfter(wardrobe, uploaded, edit_target, prefs, banned_widget,
                mood_records, messages, page, weather, tpo_tags)
    /\ saved_outfits' =
          with_saved(saved_outfits, date_key(target_date),
                     make_favorite_payload(target_date, outfit', weather, tpo_tags,
                                           color_plan', nev + 1))
    /\ Logged("save", target_date)
    /\ UNCHANGED <<uploaded, mood_records, messages, temp_ban_items, last_outfit, page,
                   weather, tpo_tags, target_date>>

\* "삭제" of saved outfit i of the selected date: pop, the date's key deleted
\* with its last outfit, st.rerun()
DeleteSaved(sel, i) ==
    /\ nev < MaxEvents + MaxSaved
    /\ page = PageSaved
    /\ sel \in DOMAIN saved_outfits
    /\ i \in 1..Len(saved_outfits[sel])
    /\ saved_outfits' = without_saved(saved_outfits, sel, i)
    /\ RunFrom(Sidebar(wardrobe, prefs, banned_widget, mood_records, messages),
               messages, edit_target)
    /\ Logged("unsave", <<sel, i>>)
    /\ UNCHANGED <<uploaded, mood_records, messages, temp_ban_items, last_outfit, page,
                   weather, tpo_tags, target_date>>

Next ==
    \/ \E t \in Texts : AddMood(t)
    \/ \E i \in 1..MaxEvents : DeleteMood(i)
    \/ \E t \in BanTexts : TypeBanned(t)
    \/ \E pg \in Pages : SetPage(pg)
    \/ \E w \in Weathers : SetWeather(w)
    \/ \E tags \in TagLists : SetTPO(tags)
    \/ \E t \in Texts : Chat(t)
    \/ \E n \in NewItems : AddItem(n[1], n[2])
    \/ \E c \in CategorySet, i \in 1..4 : DeleteItem(c, i)
    \/ \E c \in CategorySet, i \in 1..4 : OpenEdit(c, i)
    \/ \E name \in EditNames : DialogSave(name)
    \/ DialogCancel
    \/ \E j \in Uploads : UploadJSON(j)
    \/ ClearUpload
    \/ ResetSample

Spec == Init /\ [][Next]_vars

(***************************************************************************)
(* The saved outfits: the session in which outfits are saved for dates and *)
(* deleted again, while the date, the page, the weather and the occasion   *)
(* change.                                                                 *)
(***************************************************************************)
NextSaved ==
    \/ SaveOutfit
    \/ \E d \in Dates, i \in 1..MaxSaved : DeleteSaved(date_key(d), i)
    \/ \E d \in Dates : SetDate(d)
    \/ \E pg \in {PageToday, PageSaved} : SetPage(pg)
    \/ \E w \in Weathers : SetWeather(w)

SpecSaved == Init /\ [][NextSaved]_vars

(***************************************************************************)
(* The wardrobe page: the session from a run on the page "옷장 관리" on, in  *)
(* which items are added, deleted and edited, the wardrobe is restored     *)
(* from JSON and reset to the sample, and the page is left and come back   *)
(* to.                                                                     *)
(***************************************************************************)
InitEdit == InitOn(default_wardrobe, InitialPrefs, <<>>, PageWardrobe)

NextEdit ==
    \/ \E n \in NewItems : AddItem(n[1], n[2])
    \/ \E c \in CategorySet, i \in 1..4 : DeleteItem(c, i)
    \/ \E c \in CategorySet, i \in 1..4 : OpenEdit(c, i)
    \/ \E name \in EditNames : DialogSave(name)
    \/ DialogCancel
    \/ \E j \in Uploads : UploadJSON(j)
    \/ ClearUpload
    \/ ResetSample
    \/ \E pg \in {PageToday, PageWardrobe} : SetPage(pg)

SpecEdit == InitEdit /\ [][NextEdit]_vars

(***************************************************************************)
(* The outfit engine on its inputs: a session that starts with a wardrobe, *)
(* preferences and mood records of the sets above, in which the weather    *)
(* and the occasion change; every script run rebuilds the profile and      *)
(* calls build_outfit and recommend_colors.                                *)
(***************************************************************************)
\* ---- inputs of the outfit engine ----
\* "셔츠" (formal, warmth 2), "후드티" (casual, warmth 6) and "미니멀 셔츠" (formal,
\* warmth 6)
FormalTop == [name |-> <<"SYEO", "CHEU">>, tags |-> <<"formal">>, warmth |-> 20]
CasualTop == [name |-> <<"HU", "DEU", "TI">>, tags |-> <<"casual">>, warmth |-> 60]
FormalWarmTop ==
    [name |-> <<"MI", "NI", "MEOL", " ", "SYEO", "CHEU">>, tags |-> <<"formal">>, warmth |-> 60]

\* the sample wardrobe with the items of one category replaced
WardrobeWith(category, items) == [default_wardrobe EXCEPT ![category] = List(items)]

ThreeTops == WardrobeWith("tops", <<FormalTop, CasualTop, FormalWarmTop>>)

EngineWardrobes ==
    {default_wardrobe,
     WardrobeWith("tops", <<FormalTop, CasualTop>>),
     ThreeTops,
     [c \in CategorySet |-> List(<<>>)]}
    \cup {WardrobeWith(c, <<>>) : c \in {"tops", "bottoms", "outer", "shoes"}}

\* preferences as a session may hold them: a warmth bias, keys of its own
EnginePrefs ==
    {InitialPrefs,
     [warmth_bias |-> 0 - 10, style_dna |-> <<>>, signals |-> InitialPrefs.signals,
      banned_keywords |-> <<>>],
     [warmth_bias |-> 10, style_dna |-> <<>>, signals |-> InitialPrefs.signals,
      banned_keywords |-> <<>>, diversity_strength |-> 5,
      recent_picks |-> <<<<"MAEN", "TU", "MAEN">>>>]}

\* mood records: none, "미니멀 빼줘", "화이트"
EngineRecords ==
    {<<>>,
     <<[text |-> <<"MI", "NI", "MEOL", " ", "PPAE", "JWO">>]>>,
     <<[text |-> <<"HWA", "I", "TEU">>]>>}

\* every temperature band, and both sides of what outer is gated on
EngineWeathers ==
    {[feels_c |-> 0 - 5, rain |-> FALSE, wind_ms |-> 15],
     [feels_c |-> 8, rain |-> FALSE, wind_ms |-> 15],
     [feels_c |-> 16, rain |-> FALSE, wind_ms |-> 15],
     [feels_c |-> 17, rain |-> FALSE, wind_ms |-> 15],
     [feels_c |-> 17, rain |-> FALSE, wind_ms |-> 69],
     [feels_c |-> 17, rain |-> FALSE, wind_ms |-> 70],
     [feels_c |-> 25, rain |-> TRUE, wind_ms |-> 15],
     [feels_c |-> 30, rain |-> FALSE, wind_ms |-> 15]}

EngineTagLists == {<<"casual">>, <<"formal">>, <<"formal", "smart">>, <<"date", "smart">>}

\* every wardrobe with the preferences of a new session, and two wardrobes with
\* every preferences and mood records
EngineStarts ==
    {<<wd, InitialPrefs, <<>>>> : wd \in EngineWardrobes}
    \cup ({default_wardrobe, ThreeTops} \X EnginePrefs \X EngineRecords)

InitEngine == \E s \in EngineStarts : InitWith(s[1], s[2], s[3])

NextEngine ==
    \/ \E w \in EngineWeathers : SetWeather(w)
    \/ \E tags \in EngineTagLists : SetTPO(tags)

SpecEngine == InitEngine /\ [][NextEngine]_vars


(***************************************************************************)
(* Properties                                                              *)
(***************************************************************************)
Slots == {"top", "bottom", "outer", "shoes"}
SlotCategories == {"tops", "bottoms", "outer", "shoes"}

\* the last event was a chat text with one of the redo words in it
IsRedo(e) ==
    /\ e.kind = "chat"
    /\ \E n \in 1..Len(REASK_TRIGGERS) : Contains(lower(e.arg), REASK_TRIGGERS[n])

\* each of tops, bottoms, outer and shoes holds at least two items
TwoPerSlot(wd) == \A c \in SlotCategories : Len(wd[c].items) >= 2

\* the names of the items an outfit shows in its four slots
ShownNames(o) == {o[sl].name : sl \in {x \in Slots : o[x] # None}}

\* C1 (reroll guarantee): with at least two items in each of tops, bottoms,
\* outer and shoes and an outfit on the screen, a chat text with a redo word is
\* followed by an outfit that differs from the shown one in top, bottom, outer
\* or shoes.
C1_RedoChangesOutfit ==
    [][(outfit # None /\ TwoPerSlot(wardrobe) /\ IsRedo(ev'))
        => (outfit' # None /\ \E sl \in Slots : outfit'[sl] # outfit[sl])]_vars

\* C2 (single-use transient ban): the run after a redo request scores with the
\* names of the shown outfit's slot items in temp_ban_items, every other run
\* with an empty ban, and the ban is empty again once the run is over.
C2_TransientBanSingleUse ==
    [][/\ (outfit # None /\ IsRedo(ev')) => ShownNames(outfit) \subseteq SeqToSet(ban_seen')
       /\ ~IsRedo(ev') => ban_seen' = <<>>
       /\ temp_ban_items' = <<>>]_vars

\* what the texts now stored and the typed ban list give
DerivedSignals == extract_signals(style_dna_of(mood_records, messages))
DerivedBanned ==
    dedupe(StripNonBlank(banned_manual_of(banned_typed)) \o DerivedSignals.banned_from_text)

\* C3 (records take effect at once): after every run, signals and banned_keywords
\* are those derivable from the stored mood records, the user's chat turns and
\* the ban list the user typed; a keyword banned only by a deleted record is gone.
C3_ProfileDerivable ==
    /\ prefs.signals.prefer_signals = DerivedSignals.prefer_signals
    /\ prefs.signals.avoid_signals = DerivedSignals.avoid_signals
    /\ prefs.signals.prefer_colors = DerivedSignals.prefer_colors
    /\ prefs.signals.avoid_colors = DerivedSignals.avoid_colors
    /\ prefs.banned_keywords = DerivedBanned

\* the same three entries in two profiles
SameProfile(a, b) ==
    /\ a.style_dna = b.style_dna
    /\ a.signals = b.signals
    /\ a.banned_keywords = b.banned_keywords

\* rebuild_profile applied to its own result, with the same other arguments
Rebuilt(p, manual) == rebuild_profile(p, mood_records, messages, manual)
RebuiltTwice(first, manual) == SameProfile(Rebuilt(first, manual), first)

\* a profile left by other texts and another ban list
StaleProfile ==
    [InitialPrefs EXCEPT !.style_dna = TextBlack,
                         !.signals.avoid_colors = <<"black">>,
                         !.banned_keywords = <<TextRedo>>]

\* C4 (idempotence of rebuild_profile): for the stored mood records and chat
\* messages and the ban list in the text input, rebuild_profile applied to the
\* result of rebuild_profile gives the same style_dna, signals and
\* banned_keywords, whatever profile the first call started from.
C4_RebuildIdempotent ==
    \A p \in {prefs, InitialPrefs, StaleProfile} :
        RebuiltTwice(Rebuilt(p, banned_manual_of(banned_widget.text)),
                     banned_manual_of(banned_widget.text))

\* texts of both kinds are stored, and they give style signals and banned words
C4_Witness ==
    /\ mood_records # <<>>
    /\ messages # <<>>
    /\ prefs.signals.prefer_signals # <<>>
    /\ prefs.banned_keywords # <<>>
    /\ ~SameProfile(prefs, StaleProfile)

\* out is doc with exactly the absent and the non-list categories replaced by
\* the built-in lists
Repaired(doc, out) ==
    \A c \in CategorySet :
        out[c] = IF doc.kind = "dict" /\ c \in DOMAIN doc.map /\ doc.map[c].kind = "list"
                 THEN doc.map[c]
                 ELSE default_wardrobe[c]

\* C5 (wardrobe invariant): the session wardrobe always has the five categories,
\* each a list; a restored document has only its absent and non-list categories
\* replaced by the built-in lists, and normalize_wardrobe leaves a wardrobe whose
\* categories are lists, empty ones included, as it is.
C5_WardrobeInvariant ==
    /\ \A c \in CategorySet : c \in DOMAIN wardrobe /\ wardrobe[c].kind = "list"
    /\ ev.kind = "upload" => Repaired(ev.arg, wardrobe)
    /\ normalize_wardrobe(Dict(wardrobe)) = wardrobe
    /\ \A j \in Uploads : Repaired(j, normalize_wardrobe(j))

\* a document with empty lists was restored, and the wardrobe is empty lists
C5_Witness ==
    /\ ev.kind = "upload"
    /\ ev.arg.kind = "dict"
    /\ \A c \in CategorySet : wardrobe[c] = List(<<>>)

\* an unbanned copy of a profile, and profiles with other ban lists
Unbanned(p) == [p EXCEPT !.banned_keywords = <<>>]
C6_Profiles ==
    {prefs,
     [prefs EXCEPT !.banned_keywords = <<<<"b", "l", "a", "c", "k">>>>],
     [prefs EXCEPT !.banned_keywords = <<<<"BEUL", "RAEG">>, <<"NI", "TEU">>>>]}

\* the lower-cased name of the item contains an entry of banned_keywords
IsBanned(item, p) ==
    \E n \in 1..Len(p.banned_keywords) :
        Contains(lower(Get(item, "name", <<>>)), p.banned_keywords[n])

\* the score an item gets in the run that is shown
ScoreIn(item, c, p) == score_item(item, tpo_tags, p, weather, c, temp_ban_items)

BannedSevenLower(item, c, p) ==
    IsBanned(item, p) => ScoreIn(item, c, p) <= ScoreIn(item, c, Unbanned(p)) - 70

NoneScoresHigher(best, c, p) ==
    best # None =>
        \A i \in 1..Len(wardrobe[c].items) :
            ScoreIn(wardrobe[c].items[i], c, p) <= ScoreIn(best, c, p)

\* C6 (banned-keyword penalty): an item whose lower-cased name contains an entry
\* of banned_keywords scores at most its score under an empty banned_keywords
\* minus 7.0, and the item pick_best returns for a category is one that no item
\* of the category outscores.
C6_BannedPenalty ==
    \A c \in CategorySet, p \in C6_Profiles :
        /\ \A i \in 1..Len(wardrobe[c].items) : BannedSevenLower(wardrobe[c].items[i], c, p)
        /\ NoneScoresHigher(pick_best(wardrobe[c].items, tpo_tags, p, weather, c,
                                      temp_ban_items), c, p)

\* a top with a banned word in its name would have been the pick without the ban,
\* and another top is shown
C6_Witness ==
    /\ outfit # None
    /\ outfit.top # None
    /\ \E i \in 1..Len(wardrobe["tops"].items) :
          /\ IsBanned(wardrobe["tops"].items[i], prefs)
          /\ wardrobe["tops"].items[i] # outfit.top
          /\ ScoreIn(wardrobe["tops"].items[i], "tops", Unbanned(prefs))
                > ScoreIn(outfit.top, "tops", Unbanned(prefs))

\* the black word is in the name
HasBlack(name) ==
    \/ Contains(lower(name), <<"BEUL", "RAEG">>)
    \/ Contains(lower(name), <<"b", "l", "a", "c", "k">>)

SlotOf == [tops |-> "top", bottoms |-> "bottom", outer |-> "outer", shoes |-> "shoes"]

\* the category holds an item with and an item without the black word
BlackAndOther(items) ==
    /\ \E i \in 1..Len(items) : HasBlack(Get(items[i], "name", <<>>))
    /\ \E i \in 1..Len(items) : ~HasBlack(Get(items[i], "name", <<>>))

\* C7 (exclude black): when the accumulated text is "블랙은 빼줘", avoid_colors has
\* the black key, and no slot whose category holds items with and without the
\* black word in their names shows an item with it.
C7_ExcludeBlack ==
    (prefs.style_dna = TextBlackEun /\ outfit # None) =>
        /\ "black" \in SeqToSet(prefs.signals.avoid_colors)
        /\ \A c \in SlotCategories :
              (BlackAndOther(wardrobe[c].items) /\ outfit[SlotOf[c]] # None)
                  => ~HasBlack(Get(outfit[SlotOf[c]], "name", <<>>))

CategoryOf == [top |-> "tops", bottom |-> "bottoms", outer |-> "outer", shoes |-> "shoes"]

\* C8 (diversity decay): an item picked in the previous run is ranked lower in
\* the next run than with an empty history: after the first run of the session,
\* whose history is empty, a second run over the same wardrobe, weather, tags,
\* signals and banned keywords scores every item the first run picked strictly
\* lower than the first run did.
C8_PreviousPickRankedLower ==
    [][(/\ nev = 0
        /\ outfit # None
        /\ outfit' # None
        /\ wardrobe' = wardrobe
        /\ weather' = weather
        /\ tpo_tags' = tpo_tags
        /\ prefs'.signals = prefs.signals
        /\ prefs'.banned_keywords = prefs.banned_keywords)
       => \A sl \in {x \in Slots : outfit[x] # None} :
             score_item(outfit[sl], tpo_tags', prefs', weather', CategoryOf[sl], temp_ban_items')
                < score_item(outfit[sl], tpo_tags, prefs, weather, CategoryOf[sl], temp_ban_items)]_vars

\* no entry of the list occurs twice
NoRepeats(xs) == \A i, j \in 1..Len(xs) : xs[i] = xs[j] => i = j

\* C9 (recent-pick history): after a run that picked an item for a slot, the
\* preferences hold a recent_picks history for the slot with the name of the pick
\* at its front and no name twice.
C9_RecentPicksUpdated ==
    outfit # None =>
        \A sl \in {x \in Slots : outfit[x] # None} :
            /\ "recent_picks" \in DOMAIN prefs
            /\ CategoryOf[sl] \in DOMAIN prefs.recent_picks
            /\ prefs.recent_picks[CategoryOf[sl]] # <<>>
            /\ Head(prefs.recent_picks[CategoryOf[sl]]) = outfit[sl].name
            /\ NoRepeats(prefs.recent_picks[CategoryOf[sl]])

(***************************************************************************)
(* Sessions with a text as long as style_dna may get                       *)
(***************************************************************************)
\* a text of StyleDnaMax full stops
LongText == [i \in 1..StyleDnaMax |-> "."]

DnaTexts == {LongText, TextBlack, TextMinimal}

NextDna ==
    \/ \E t \in DnaTexts : AddMood(t)
    \/ \E t \in DnaTexts : Chat(t)
    \/ \E i \in 1..MaxEvents : DeleteMood(i)

SpecDna == Init /\ [][NextDna]_vars

\* C10 (style_dna bound): after a mood record or a chat text is added, style_dna
\* is at most 2500 characters long and still holds the text just entered: what
\* is cut off is the oldest text.
C10_NewestTextKept ==
    ev.kind \in {"mood", "chat"} =>
        /\ Len(prefs.style_dna) <= StyleDnaMax
        /\ Contains(prefs.style_dna, strip(ev.arg))

(***************************************************************************)
(* Properties of the outfit engine                                         *)
(***************************************************************************)
\* the items of a category of the session's wardrobe
ItemsOf(category) == wardrobe[category].items

\* it is cold, it rains or it is windy (wind in tenths of m/s)
OuterCalledFor == weather.feels_c <= 16 \/ weather.rain \/ weather.wind_ms >= 70

\* C11: when it is warmer than 16 degrees, dry and the wind is under 7 m/s, the
\* outfit has no outer, whatever the wardrobe and the preferences; when it is 16
\* degrees or colder, or it rains, or the wind is 7 m/s or more, and the wardrobe
\* has outer items, the outfit's outer is one of them.
C11_OuterGating ==
    page = PageToday =>
        /\ ~OuterCalledFor => outfit.outer = None
        /\ (OuterCalledFor /\ ItemsOf("outer") # <<>>) =>
               outfit.outer \in SeqToSet(ItemsOf("outer"))

\* the weather was set to 17 degrees, dry, wind 6.9 m/s; there are outer items,
\* one of them tagged as the occasion wants, and the outfit has no outer
C11_Witness ==
    /\ ev.kind = "weather"
    /\ weather = [feels_c |-> 17, rain |-> FALSE, wind_ms |-> 69]
    /\ \E i \in 1..Len(ItemsOf("outer")) :
          \E t \in SeqToSet(tpo_tags) : t \in SeqToSet(ItemsOf("outer")[i].tags)
    /\ outfit.outer = None

\* the case of C12: -5 degrees, dry, a formal occasion, the preferences of a new
\* session with nothing learnt
FormalInFrost ==
    /\ page = PageToday
    /\ weather.feels_c = 0 - 5
    /\ ~weather.rain
    /\ dedupe(tpo_tags) = <<"formal">>
    /\ prefs = InitialPrefs

\* C12: at -5 degrees, dry, wanted tags [formal] and empty preferences, of a formal
\* top of warmth 2 and a casual top of warmth 6 the casual one is selected; with a
\* top that is formal and of warmth 6 added, that one is selected, its score being
\* 2.0 and the full warmth bonus 2.2 (scores in tenths).
C12_TagVersusWarmth ==
    FormalInFrost =>
        /\ ItemsOf("tops") = <<FormalTop, CasualTop>> => outfit.top = CasualTop
        /\ ItemsOf("tops") = <<FormalTop, CasualTop, FormalWarmTop>> =>
              /\ outfit.top = FormalWarmTop
              /\ score_item(FormalWarmTop, <<"formal">>, prefs, weather, "tops",
                            temp_ban_items) = 20 + 22

\* the occasion or the weather was set, the tops are the formal and the casual
\* one, and the casual top is in the outfit
C12_Witness ==
    /\ FormalInFrost
    /\ ev.kind \in {"weather", "tpo"}
    /\ ItemsOf("tops") = <<FormalTop, CasualTop>>
    /\ outfit.top = CasualTop

\* the score of an item of the wardrobe in weather w, all else as in the session
ScoreIf(item, category, w) ==
    score_item(item, dedupe(tpo_tags), prefs, w, category, temp_ban_items)

\* how much more the item scores in the session's weather with rain than without
RainPart(item, category) ==
    ScoreIf(item, category, [weather EXCEPT !.rain = TRUE])
        - ScoreIf(item, category, [weather EXCEPT !.rain = FALSE])

WantedTagsOf(item) == Len(SelectSeq(dedupe(tpo_tags), LAMBDA t : t \in SeqToSet(item.tags)))

Loafers == default_wardrobe["shoes"].items[2]
Sneakers == default_wardrobe["shoes"].items[1]

\* rain, a formal occasion, nothing learnt, the shoes of the sample wardrobe
FormalInRain ==
    /\ page = PageToday
    /\ weather.rain
    /\ dedupe(tpo_tags) = <<"formal">>
    /\ prefs = InitialPrefs
    /\ ItemsOf("shoes") = <<Sneakers, Loafers>>

\* C13: rain adds 0.5 to the score of an item that is rain_ok or is no outer and
\* no shoes, and takes 1.0 from any other; without rain it adds nothing (shoes,
\* which have no warmth part, score 2.0 per wanted tag when nothing is learnt).
\* So of the shoes in rain the loafers (one wanted tag, not rain_ok) score 1.0, the
\* sneakers (no wanted tag, rain_ok) 0.5, and the loafers are selected.
C13_RainHandling ==
    page = PageToday =>
        /\ \A c \in CategorySet : \A i \in 1..Len(ItemsOf(c)) :
              RainPart(ItemsOf(c)[i], c) =
                  IF Get(ItemsOf(c)[i], "rain_ok", FALSE) \/ c \notin {"outer", "shoes"}
                  THEN 5 ELSE 0 - 10
        /\ (~weather.rain /\ prefs = InitialPrefs) =>
              \A i \in 1..Len(ItemsOf("shoes")) :
                  ScoreIf(ItemsOf("shoes")[i], "shoes", weather)
                      = 20 * WantedTagsOf(ItemsOf("shoes")[i])
        /\ FormalInRain =>
              /\ ScoreIf(Loafers, "shoes", weather) = 20 - 10
              /\ ScoreIf(Sneakers, "shoes", weather) = 5
              /\ outfit.shoes = Loafers

\* it rains on a formal occasion and the loafers, which are not rain_ok, are the
\* shoes of the outfit
C13_Witness ==
    /\ FormalInRain
    /\ ev.kind \in {"weather", "tpo"}
    /\ ~Get(outfit.shoes, "rain_ok", FALSE)
    /\ outfit.shoes = Loafers

\* the categories whose items are scored on warmth, and their items
WarmCategories == {"tops", "bottoms", "outer"}
WarmItems == UNION {{<<c, ItemsOf(c)[i]>> : i \in 1..Len(ItemsOf(c))} : c \in WarmCategories}

\* the band values of the claim, in tenths
BandValue(feels_c) ==
    IF feels_c <= 0 THEN 60
    ELSE IF feels_c <= 8 THEN 50
    ELSE IF feels_c <= 16 THEN 35
    ELSE IF feels_c <= 23 THEN 25
    ELSE IF feels_c <= 29 THEN 15
    ELSE 5

IdealNow == Max(0, BandValue(weather.feels_c) + Get(prefs, "warmth_bias", 0))
Distance(item) == Abs(Get(item, "warmth", 0) - IdealNow)

\* What warmth adds to the score of an item of a warm category: the score less
\* the score the item has in a category with the same rain rule and no warmth part
WarmthPart(ci) ==
    ScoreIf(ci[2], ci[1], weather)
        - ScoreIf(ci[2], IF ci[1] = "outer" THEN "shoes" ELSE "extras", weather)

\* C14: for tops, bottoms and outer the warmth part of the score is
\* max(0, 2.2 - |warmth - ideal|), ideal being max(0, band value + warmth_bias):
\* it never grows with the distance, is 2.2 at distance 0 and 0 from distance 2.2
\* on; for shoes and extras it is 0.
C14_WarmthMonotone ==
    page = PageToday =>
        /\ \A a \in WarmItems :
              /\ WarmthPart(a) = Max(0, 22 - Distance(a[2]))
              /\ WarmthPart(a) <= 22
              /\ Distance(a[2]) = 0 => WarmthPart(a) = 22
              /\ Distance(a[2]) >= 22 => WarmthPart(a) = 0
              /\ \A b \in WarmItems :
                    Distance(a[2]) <= Distance(b[2]) => WarmthPart(a) >= WarmthPart(b)
              /\ \A c \in {"shoes", "extras"} : warmth_score(a[2], prefs, weather, c) = 0
        /\ \A c \in {"shoes", "extras"} : \A i \in 1..Len(ItemsOf(c)) :
              warmth_score(ItemsOf(c)[i], prefs, weather, c) = 0

\* the weather was set, the warmth bias is not 0, and the wardrobe has an item at
\* the ideal warmth, one between and one too far off to get anything
C14_Witness ==
    /\ ev.kind = "weather"
    /\ Get(prefs, "warmth_bias", 0) # 0
    /\ \E a \in WarmItems : Distance(a[2]) = 0 /\ WarmthPart(a) = 22
    /\ \E a \in WarmItems : WarmthPart(a) > 0 /\ WarmthPart(a) < 22
    /\ \E a \in WarmItems : Distance(a[2]) > 22 /\ WarmthPart(a) = 0

\* the slot is called for: every slot but outer always is
CalledFor(slot) == slot # "outer" \/ OuterCalledFor

\* what build_outfit selects from the sample wardrobe, all else as in the session
SampleOutfit == build_outfit(default_wardrobe, weather, tpo_tags, prefs, temp_ban_items)

\* C15: with all five categories present, build_outfit returns None for a slot
\* whose category has no items and, for a slot that is called for, only for such
\* a slot; the other slots are selected as usual: emptying one category of the
\* sample wardrobe leaves the selection of every other slot as it is with the
\* sample wardrobe.
C15_EmptyCategory ==
    page = PageToday =>
        /\ DOMAIN outfit = Slots \cup {"extras"}
        /\ \A slot \in Slots :
              /\ ItemsOf(CategoryOf[slot]) = <<>> => outfit[slot] = None
              /\ (ItemsOf(CategoryOf[slot]) # <<>> /\ CalledFor(slot)) =>
                    outfit[slot] \in SeqToSet(ItemsOf(CategoryOf[slot]))
        /\ \A slot \in Slots :
              wardrobe = WardrobeWith(CategoryOf[slot], <<>>) =>
                  \A other \in Slots \ {slot} : outfit[other] = SampleOutfit[other]

\* the weather or the occasion was set; the wardrobe has no shoes and has tops,
\* bottoms and outer items; the outfit has no shoes and has a top, a bottom and
\* an outer
C15_Witness ==
    /\ ev.kind \in {"weather", "tpo"}
    /\ ItemsOf("shoes") = <<>>
    /\ outfit.shoes = None
    /\ \A slot \in {"top", "bottom", "outer"} :
          ItemsOf(CategoryOf[slot]) # <<>> /\ outfit[slot] # None

(***************************************************************************)
(* Properties of the profile builder                                       *)
(***************************************************************************)
\* the entries rebuild_profile writes
Written == {"style_dna", "signals", "banned_keywords"}

\* q has the keys of p and the written ones, and every other entry as in p
Untouched(p, q) ==
    /\ DOMAIN q = DOMAIN p \cup Written
    /\ \A k \in DOMAIN p \ Written : q[k] = p[k]

\* the manual ban list as the sidebar reads it from its text input
BannedManual == banned_manual_of(banned_widget.text)

\* C16: rebuild_profile changes only style_dna, signals and banned_keywords:
\* called with the session's mood records, messages and manual ban list on any
\* preferences, it returns warmth_bias, diversity_strength, recent_picks and every
\* other key with the value it had.
C16_ProfileFrame ==
    \A p \in EnginePrefs \cup {prefs} :
        Untouched(p, rebuild_profile(p, mood_records, messages, BannedManual))

\* a run rebuilt a profile that has a warmth bias, a diversity strength and
\* recent picks, and wrote a style_dna and a banned keyword to it
C16_Witness ==
    /\ ev.kind \in {"weather", "tpo"}
    /\ {"warmth_bias", "diversity_strength", "recent_picks"} \subseteq DOMAIN prefs
    /\ prefs.warmth_bias # 0
    /\ prefs.recent_picks # <<>>
    /\ prefs.style_dna # <<>>
    /\ prefs.banned_keywords # <<>>

\* the manual ban list, stripped and without blanks, then the words banned in
\* the accumulated text
ManualThenText ==
    SelectSeq([i \in 1..Len(BannedManual) |-> strip(BannedManual[i])], LAMBDA x : x # <<>>)
        \o extract_signals(prefs.style_dna).banned_from_text

\* the place of the first occurrence of x in xs
FirstAt(xs, x) == CHOOSE i \in 1..Len(xs) : xs[i] = x /\ \A j \in 1..(i - 1) : xs[j] # x

\* C17: after rebuild_profile banned_keywords is the union of the manual ban list
\* (stripped, blanks dropped) and the words banned in the accumulated text, the
\* manual list first: every entry of either occurs exactly once, nothing else
\* occurs, and the entries are in the order of their first occurrences.
C17_BannedUnion ==
    /\ NoRepeats(prefs.banned_keywords)
    /\ SeqToSet(prefs.banned_keywords) = SeqToSet(ManualThenText)
    /\ \A i, j \in 1..Len(prefs.banned_keywords) :
          i < j => FirstAt(ManualThenText, prefs.banned_keywords[i])
                     < FirstAt(ManualThenText, prefs.banned_keywords[j])

\* a run found a word both in the manual list and in the text, and the list it
\* wrote has two entries or more
C17_Witness ==
    /\ nev > 0
    /\ Len(prefs.banned_keywords) >= 2
    /\ Len(ManualThenText) > Len(prefs.banned_keywords)
    /\ \E i \in 1..Len(BannedManual) :
          BannedManual[i] \in SeqToSet(extract_signals(prefs.style_dna).banned_from_text)

(***************************************************************************)
(* Properties of the colour plan                                           *)
(***************************************************************************)
\* the preferred colours that are not avoided
PreferredColors ==
    SelectSeq(prefs.signals.prefer_colors,
              LAMBDA c : c \notin SeqToSet(prefs.signals.avoid_colors))

\* the palette of the claim's temperature bands, before the occasion is looked at
BandPalette ==
    IF weather.feels_c <= 8 THEN [base |-> "navy", accent |-> "beige"]
    ELSE IF weather.feels_c <= 16 THEN [base |-> "gray", accent |-> "navy"]
    ELSE IF weather.feels_c <= 23 THEN [base |-> "neutral", accent |-> "blue"]
    ELSE [base |-> "white", accent |-> "green"]

\* C18: when no preferred colour is left after the avoided ones are taken out,
\* base and accent come from the palette of the temperature band, adjusted for
\* the occasion: with formal or smart among the tags a white or green base
\* becomes navy, and with date among the tags and a base of navy or gray the
\* accent is pink.
C18_OccasionAdjustment ==
    (page = PageToday /\ PreferredColors = <<>>) =>
        /\ color_plan.base \in {BandPalette.base, "navy"}
        /\ (\E t \in {"formal", "smart"} : t \in SeqToSet(tpo_tags)) =>
              /\ color_plan.base \notin {"white", "green"}
              /\ BandPalette.base \in {"white", "green"} => color_plan.base = "navy"
        /\ ("date" \in SeqToSet(tpo_tags) /\ color_plan.base \in {"navy", "gray"}) =>
              color_plan.accent = "pink"

(***************************************************************************)
(* Avoid signals                                                           *)
(***************************************************************************)
\* the session's preferences with no avoid signals, all else the same
WithoutAvoidSignals == [prefs EXCEPT !.signals.avoid_signals = <<>>]

\* the avoid signals that are substrings of the item's name
AvoidedIn(item) ==
    SelectSeq(prefs.signals.avoid_signals,
              LAMBDA a : Contains(lower(Get(item, "name", <<>>)), a))

\* C19: every avoid signal that is a substring of the item's name takes 2.0 from
\* the item's score, on top of any banned-keyword penalty: the item scores
\* 2.0 per such signal less than with the same preferences without avoid
\* signals, for every item, weather, wanted tags and category.
C19_AvoidSignalPenalty ==
    page = PageToday =>
        \A c \in CategorySet : \A i \in 1..Len(ItemsOf(c)) :
            ScoreIf(ItemsOf(c)[i], c, weather)
                = score_item(ItemsOf(c)[i], dedupe(tpo_tags), WithoutAvoidSignals, weather,
                             c, temp_ban_items)
                  - 20 * Len(AvoidedIn(ItemsOf(c)[i]))

(***************************************************************************)
(* Properties of the saved outfits                                         *)
(***************************************************************************)
\* the list saved for a date key, empty if the key is absent
SavedFor(saved, k) == IF k \in DOMAIN saved THEN saved[k] ELSE <<>>

\* every date key present has a non-empty list
NoEmptyDate(saved) == \A k \in DOMAIN saved : saved[k] # <<>>

\* the step saved an outfit: it is at the front of the list of the date that was
\* set, before what was there, and it is the outfit that was shown; the lists of
\* the other dates are as they were
SavedAtFront ==
    LET k == date_key(target_date)
    IN  /\ k \in DOMAIN saved_outfits'
        /\ Tail(saved_outfits'[k]) = SavedFor(saved_outfits, k)
        /\ Head(saved_outfits'[k]).date = k
        /\ Head(saved_outfits'[k]).outfit.extras = outfit'.extras
        /\ \A slot \in Slots : Head(saved_outfits'[k]).outfit[slot] = safe_item(outfit'[slot])
        /\ DOMAIN saved_outfits' = DOMAIN saved_outfits \cup {k}
        /\ \A key \in DOMAIN saved_outfits \ {k} : saved_outfits'[key] = saved_outfits[key]

\* the step deleted saved outfit i of date sel: the date is gone with its last
\* outfit, else its list is without entry i; the other dates are as they were
DeletedFrom(sel, i) ==
    /\ IF Len(saved_outfits[sel]) = 1
       THEN sel \notin DOMAIN saved_outfits'
       ELSE /\ sel \in DOMAIN saved_outfits'
            /\ saved_outfits'[sel] = Pop(saved_outfits[sel], i)
    /\ DOMAIN saved_outfits \ {sel} = DOMAIN saved_outfits' \ {sel}
    /\ \A key \in DOMAIN saved_outfits \ {sel} : saved_outfits'[key] = saved_outfits[key]

\* C20: through every sequence of saves and deletes every date key present in
\* saved_outfits has a non-empty list; a save puts the new payload at index 0 of
\* its date's list, and the delete of the last payload of a date removes the
\* date key.
C20_SavedOutfits ==
    [][/\ NoEmptyDate(saved_outfits)
       /\ NoEmptyDate(saved_outfits')
       /\ ev'.kind = "save" => SavedAtFront
       /\ ev'.kind = "unsave" => DeletedFrom(ev'.arg[1], ev'.arg[2])
       /\ ev'.kind \notin {"save", "unsave"} => saved_outfits' = saved_outfits]_vars

\* the last saved outfit of the only date was deleted: no date key is left
C20_Witness ==
    /\ ev.kind = "unsave"
    /\ page = PageSaved
    /\ DOMAIN saved_outfits = {}

(***************************************************************************)
(* Properties of the edit dialog                                           *)
(***************************************************************************)
\* the target names an existing index (0-based) of an existing category of wd
ValidTarget(t, wd) ==
    /\ t # None
    /\ t.cat \in DOMAIN wd
    /\ t.idx >= 0
    /\ t.idx < Len(wd[t.cat].items)

\* the wardrobe as the handler of the step's event wrote it
WrittenByHandler ==
    CASE ev'.kind = "delete" ->
            [wardrobe EXCEPT ![ev'.arg[1]] = List(Pop(@.items, ev'.arg[2]))]
      [] ev'.kind = "add" ->
            [wardrobe EXCEPT ![ev'.arg[1]] = List(Append(@.items, ev'.arg[2]))]
      [] ev'.kind = "reset" -> default_wardrobe
      [] OTHER -> wardrobe

\* The step's last run drew the wardrobe page down to the dialog trigger with
\* the target the session had before the step
DialogRanOnOldTarget ==
    /\ ev'.kind \notin {"edit", "save", "cancel"}
    /\ page' = PageWardrobe
    /\ uploaded' = NoUpload
    /\ edit_target # None

\* a dialog run on a target that is not valid for the wardrobe it finds drops
\* the target and writes nothing; after a dialog run no invalid target is left
StaleTargetDropped ==
    /\ (DialogRanOnOldTarget /\ ~ValidTarget(edit_target, wardrobe')) =>
          (dialog_error' /\ edit_target' = None)
    /\ dialog_error' => (edit_target' = None /\ wardrobe' = WrittenByHandler)
    /\ (page' = PageWardrobe /\ uploaded' = NoUpload /\ edit_target' # None) =>
          ValidTarget(edit_target', wardrobe')

\* w2 is w but for entry n (1-based) of category c
SameBut(w, w2, c, n) ==
    /\ DOMAIN w2 = DOMAIN w
    /\ \A k \in DOMAIN w :
          /\ Len(w2[k].items) = Len(w[k].items)
          /\ \A j \in 1..Len(w[k].items) :
                (k # c \/ j # n) => w2[k].items[j] = w[k].items[j]

\* a save with a name overwrites the entry the target names, which exists, and
\* nothing else, and clears the target
SaveOverwritesTarget ==
    (ev'.kind = "save" /\ strip(ev'.arg) # <<>>) =>
        /\ edit_target' = None
        /\ IF ValidTarget(edit_target, wardrobe)
           THEN /\ SameBut(wardrobe, wardrobe', edit_target.cat, edit_target.idx + 1)
                /\ wardrobe'[edit_target.cat].items[edit_target.idx + 1].name = strip(ev'.arg)
           ELSE wardrobe' = wardrobe

\* a save with a blank name writes nothing
BlankSaveWritesNothing ==
    (ev'.kind = "save" /\ strip(ev'.arg) = <<>>) => wardrobe' = wardrobe

\* C21 as stated: after any interleaving of open-edit, delete, JSON restore and
\* reset, a dialog run on a target whose category is absent or whose index is
\* outside the category's list leaves the wardrobe unchanged and resets
\* edit_target to None; a save only overwrites an existing index of an existing
\* category and always, whatever the name, resets edit_target to None; a save with
\* a blank name leaves the wardrobe unchanged.
C21_EditTargetSafety_AsStated ==
    [][/\ StaleTargetDropped
       /\ SaveOverwritesTarget
       /\ BlankSaveWritesNothing
       /\ ev'.kind = "save" => edit_target' = None]_vars

\* C21, amended: as stated, but it is a save with a non-blank name that resets
\* edit_target to None; a save with a blank name leaves the wardrobe and the
\* target as they are, the dialog staying open on its valid target.
C21_EditTargetSafety ==
    [][/\ StaleTargetDropped
       /\ SaveOverwritesTarget
       /\ BlankSaveWritesNothing
       /\ (ev'.kind = "save" /\ strip(ev'.arg) = <<>>) =>
             (edit_target' = edit_target /\ ValidTarget(edit_target', wardrobe'))]_vars

\* an item was deleted while a target was set that the shorter list has no
\* index for: the dialog showed its error and the target is gone
C21_Witness ==
    /\ ev.kind = "delete"
    /\ dialog_error
    /\ edit_target = None
    /\ page = PageWardrobe

=============================================================================
